---- MODULE Spec2Model ----
(***************************************************************************)
(* A model of django-xently: the dynamic class loader                      *)
(* (xently/core/loading.py), the permission evaluator and access decorator *)
(* (xently/decorators.py) and the application configuration mixins         *)
(* (xently/config.py).                                                     *)
(*                                                                         *)
(* Dotted names ("xently.apps.cat.forms") are sequences of their segments, *)
(* so that split("."), join and startswith are computed, not assumed.      *)
(* Route names ("ns:view") are sequences of their colon-separated parts.   *)
(***************************************************************************)
EXTENDS Integers, Sequences, FiniteSets, TLC

VARIABLES
    registry,   \* loader: the app registry, app label -> registered app name or NoApp
    mods,       \* loader: the importable modules, dotted path -> module state
    user,       \* decorators: the requesting user (request.user)
    permissions, \* decorators: the permission specification under evaluation
    project,    \* config: the host project's settings and app classes
    app_attrs,  \* config: the <label>_app attributes ready() sets on each app
    callbacks,  \* config: the callback of each URLPattern object
    evals,      \* config: the calls made so far that rewrite callbacks
    composed,   \* config: the route list each composition returned the first time
    loader_setting, \* loader: settings.XENTLY_DYNAMIC_CLASS_LOADER
    loader_cache,   \* loader: the lru_cache of get_class_loader
    resolutions,    \* loader: the class loaders import_string has resolved so far
    call,       \* the last operation invoked, with its arguments
    result      \* what that operation returned or raised

vars == <<registry, mods, user, permissions, project, app_attrs, callbacks, evals,
          composed, loader_setting, loader_cache, resolutions, call, result>>

\* Python's None, in the shape of the values it stands in for
NoModule == <<>>                                \* where a module (its dotted path) is expected
NoApp == <<>>                                   \* where an app name is expected
NoClass == [module |-> <<>>, name |-> "None"]   \* where a class is expected

\* bounds of the model
MaxNames == 2   \* class names in one loader call
MaxPerms == 2   \* identifiers in one flat permission list
MaxLists == 2   \* flat lists in one tuple of a permission specification
MaxEvals == 2   \* calls that rewrite route callbacks

---------------------------------------------------------------------------
(* Sequences helpers                                                       *)

SeqsUpTo(S, n) == UNION {[1..k -> S] : k \in 0..n}

Range(s) == {s[i] : i \in DOMAIN s}

IsStrictPrefix(p, s) ==
    /\ Len(s) > Len(p)
    /\ \A i \in 1..Len(p) : s[i] = p[i]

---------------------------------------------------------------------------
(* xently/core/loading.py                                                  *)

\* settings.XENTLY_DYNAMIC_CLASS_LOADER_MODULE_PREFIX, default "xently.apps"
ModulePrefix == <<"xently", "apps">>

ClassNames == {"Form", "View"}

\* module labels handed to the loader: top-level, two and three segments
ModuleLabels == {<<"cat">>, <<"cat", "forms">>, <<"cat", "sub", "forms">>}

AppLabels == {"cat"}

\* names an app may be registered under: the library's own, another name
\* under the library prefix, or a fork in the host project
AppNames == {<<"xently", "apps", "cat">>, <<"xently", "apps", "shop", "cat">>, <<"shop", "cat">>}

DottedLabels == {m \in ModuleLabels : Len(m) > 1}

\* the module paths default_class_loader can compute for a module label
PathsOf(module_label) ==
    {ModulePrefix \o module_label} \cup {n \o Tail(module_label) : n \in AppNames}

ModulePaths == UNION {PathsOf(l) : l \in DottedLabels}

\* a module is absent, raises ImportError while being imported ("broken"),
\* or imports and defines some classes
ModuleStates ==
    {[status |-> "absent", attrs |-> {}], [status |-> "broken", attrs |-> {}]}
        \cup {[status |-> "ok", attrs |-> a] : a \in SUBSET ClassNames}

ModuleAt(path) ==
    IF path \in DOMAIN mods THEN mods[path] ELSE [status |-> "absent", attrs |-> {}]

\* the class object a module binds to a name: classes of different modules differ
ClassOf(path, classname) == [module |-> path, name |-> classname]

Raised(kind, detail) == [kind |-> kind, classes |-> <<>>, detail |-> detail]

Returned(classes) == [kind |-> "ok", classes |-> classes, detail |-> <<>>]

\* _import_module: the module, None when it does not exist (a one-frame
\* traceback), the ImportError re-raised when it comes from inside the module
\* (whatever its class: an import of a missing dependency inside the module
\* is re-raised as the ModuleNotFoundError it is)
_import_module(module_label, classnames) ==
    CASE ModuleAt(module_label).status = "ok" ->
            [raised |-> FALSE, module |-> module_label]
      [] ModuleAt(module_label).status = "absent" ->
            [raised |-> FALSE, module |-> NoModule]
      [] OTHER ->
            [raised |-> TRUE, module |-> NoModule]

\* hasattr(module, classname); None has no class attributes
HasAttr(module, classname) ==
    /\ module # NoModule
    /\ classname \in ModuleAt(module).attrs

\* the inner loop of _pluck_classes: the class of the first module having it
RECURSIVE FirstMatch(_, _)
FirstMatch(modules, classname) ==
    IF modules = <<>> THEN NoClass
    ELSE IF HasAttr(Head(modules), classname)
         THEN ClassOf(Head(modules), classname)
         ELSE FirstMatch(Tail(modules), classname)

\* [m.__name__ for m in modules if m is not None]
RECURSIVE Packages(_)
Packages(modules) ==
    IF modules = <<>> THEN <<>>
    ELSE IF Head(modules) # NoModule
         THEN <<Head(modules)>> \o Packages(Tail(modules))
         ELSE Packages(Tail(modules))

RECURSIVE PluckFrom(_, _, _)
PluckFrom(modules, classnames, klasses) ==
    IF classnames = <<>> THEN Returned(klasses)
    ELSE LET klass == FirstMatch(modules, Head(classnames))
         IN  IF klass = NoClass
             THEN Raised("ClassNotFoundError",
                         [classname |-> Head(classnames), packages |-> Packages(modules)])
             ELSE PluckFrom(modules, Tail(classnames), Append(klasses, klass))

\* mutant: a name found nowhere is skipped and the rest is returned
RECURSIVE PluckFound(_, _, _)
PluckFound(modules, classnames, klasses) ==
    IF classnames = <<>> THEN Returned(klasses)
    ELSE LET klass == FirstMatch(modules, Head(classnames))
         IN  PluckFound(modules, Tail(classnames),
                        IF klass = NoClass THEN klasses ELSE Append(klasses, klass))

_pluck_classes_partial(modules, classnames) == PluckFound(modules, classnames, <<>>)

_pluck_classes(modules, classnames) == PluckFrom(modules, classnames, <<>>)

\* mutant: an unregistered label is taken for the name of a top-level app
_find_registered_app_name_fallback(module_label) ==
    LET app_label == Head(module_label)
    IN  IF app_label \in DOMAIN registry /\ registry[app_label] # NoApp
        THEN registry[app_label]
        ELSE <<app_label>>

\* _find_registered_app_name: apps.get_app_config(module_label.split(".")[0]).name
_find_registered_app_name(module_label) ==
    LET app_label == Head(module_label)
    IN  IF app_label \in DOMAIN registry /\ registry[app_label] # NoApp
        THEN registry[app_label]
        ELSE NoApp

\* mutant: the library's class is preferred to the local one
default_class_loader_library_first(module_label, classnames, module_prefix) ==
    IF Len(module_label) < 2
    THEN Raised("ValueError", <<>>)
    ELSE
    LET xently_module_label == module_prefix \o module_label
        xently_import == _import_module(xently_module_label, classnames)
        app_name == _find_registered_app_name(module_label)
        local_module_label == app_name \o Tail(module_label)
        local_import ==
            IF IsStrictPrefix(module_prefix, app_name)
            THEN [raised |-> FALSE, module |-> NoModule]
            ELSE _import_module(local_module_label, classnames)
    IN  IF xently_import.raised THEN Raised("ImportError", xently_module_label)
        ELSE IF app_name = NoApp THEN Raised("AppNotFoundError", module_label)
        ELSE IF local_import.raised THEN Raised("ImportError", local_module_label)
        ELSE IF xently_import.module = NoModule /\ local_import.module = NoModule
             THEN Raised("ModuleNotFoundError", module_label)
        ELSE _pluck_classes(<<xently_import.module, local_import.module>>, classnames)

\* mutant: the local module is imported whatever the app's registered name
default_class_loader_no_skip(module_label, classnames, module_prefix) ==
    IF Len(module_label) < 2
    THEN Raised("ValueError", <<>>)
    ELSE
    LET xently_module_label == module_prefix \o module_label
        xently_import == _import_module(xently_module_label, classnames)
        app_name == _find_registered_app_name(module_label)
        local_module_label == app_name \o Tail(module_label)
        local_import == _import_module(local_module_label, classnames)
    IN  IF xently_import.raised THEN Raised("ImportError", xently_module_label)
        ELSE IF app_name = NoApp THEN Raised("AppNotFoundError", module_label)
        ELSE IF local_import.raised THEN Raised("ImportError", local_module_label)
        ELSE IF xently_import.module = NoModule /\ local_import.module = NoModule
             THEN Raised("ModuleNotFoundError", module_label)
        ELSE _pluck_classes(<<local_import.module, xently_import.module>>, classnames)

\* default_class_loader: ValueError for a top-level label, then the library
\* import, the registry lookup, the local import and the pluck, in this order
default_class_loader(module_label, classnames, module_prefix) ==
    IF Len(module_label) < 2
    THEN Raised("ValueError", <<>>)
    ELSE
    LET xently_module_label == module_prefix \o module_label
        xently_import == _import_module(xently_module_label, classnames)
        app_name == _find_registered_app_name(module_label)
        local_module_label == app_name \o Tail(module_label)
        local_import ==
            IF IsStrictPrefix(module_prefix, app_name)
            THEN [raised |-> FALSE, module |-> NoModule]
            ELSE _import_module(local_module_label, classnames)
    IN  IF xently_import.raised THEN Raised("ImportError", xently_module_label)
        ELSE IF app_name = NoApp THEN Raised("AppNotFoundError", module_label)
        ELSE IF local_import.raised THEN Raised("ImportError", local_module_label)
        ELSE IF xently_import.module = NoModule /\ local_import.module = NoModule
             THEN Raised("ModuleNotFoundError", module_label)
        ELSE _pluck_classes(<<local_import.module, xently_import.module>>, classnames)

---------------------------------------------------------------------------
(* The loader's state machine: a process with some registry and some       *)
(* modules on its path, in which default_class_loader is called.           *)

NoCall == [op |-> "none"]

\* settings.XENTLY_DYNAMIC_CLASS_LOADER is not set
NoSetting == <<>>

\* nothing cached by get_class_loader yet
EmptyCache == [filled |-> FALSE, callable |-> "None"]

NoResult == [kind |-> "none"]

\* no request is being served: the loader does not read these
NoUser == [attrs |-> <<>>, granted |-> {}]

NoPermissions == [type |-> "None", items |-> <<>>]

\* no application configuration is loaded: the loader and the evaluator do
\* not read the configuration's state
NoProject == [loaded |-> FALSE]

Absent == [status |-> "absent", attrs |-> {}]

\* the module stores in which the modules of `paths` are in any state and
\* no other module exists
ModuleStores(paths) ==
    {[p \in ModulePaths |-> IF p \in paths THEN f[p] ELSE Absent] :
        f \in [paths -> ModuleStates]}

InitLoader ==
    /\ registry \in [AppLabels -> AppNames \cup {NoApp}]
    /\ \E l \in DottedLabels : mods \in ModuleStores(PathsOf(l))
    /\ user = NoUser
    /\ permissions = NoPermissions
    /\ project = NoProject /\ app_attrs = <<>> /\ callbacks = <<>> /\ evals = 0
    /\ composed = <<>>
    /\ loader_setting = NoSetting /\ loader_cache = EmptyCache /\ resolutions = 0
    /\ call = NoCall
    /\ result = NoResult

CallDefaultClassLoader ==
    \E module_label \in ModuleLabels, classnames \in SeqsUpTo(ClassNames, MaxNames) :
        /\ call' = [op |-> "default_class_loader", module_label |-> module_label,
                    classnames |-> classnames, module_prefix |-> ModulePrefix]
        /\ result' = default_class_loader(module_label, classnames, ModulePrefix)
        /\ UNCHANGED <<registry, mods, user, permissions, project, app_attrs, callbacks, evals,
                     composed, loader_setting, loader_cache, resolutions>>

NextLoader == CallDefaultClassLoader

SpecLoader == InitLoader /\ [][NextLoader]_vars

---------------------------------------------------------------------------
(* _pluck_classes called on its own, with any two of the imported modules  *)
(* or None in either place.                                                *)

PluckPaths == {ModulePrefix \o <<"cat", "forms">>, <<"shop", "cat", "forms">>}

Imported == {p \in ModulePaths : mods[p].status = "ok"}

InitPluck ==
    /\ registry = [a \in AppLabels |-> NoApp]
    /\ mods \in ModuleStores(PluckPaths)
    /\ user = NoUser
    /\ permissions = NoPermissions
    /\ project = NoProject /\ app_attrs = <<>> /\ callbacks = <<>> /\ evals = 0
    /\ composed = <<>>
    /\ loader_setting = NoSetting /\ loader_cache = EmptyCache /\ resolutions = 0
    /\ call = NoCall
    /\ result = NoResult

CallPluckClasses ==
    \E local_module \in Imported \cup {NoModule}, xently_module \in Imported \cup {NoModule},
       classnames \in SeqsUpTo(ClassNames, MaxNames) :
        /\ call' = [op |-> "_pluck_classes", modules |-> <<local_module, xently_module>>,
                    classnames |-> classnames]
        /\ result' = _pluck_classes(<<local_module, xently_module>>, classnames)
        /\ UNCHANGED <<registry, mods, user, permissions, project, app_attrs, callbacks, evals,
                     composed, loader_setting, loader_cache, resolutions>>

NextPluck == CallPluckClasses

SpecPluck == InitPluck /\ [][NextPluck]_vars

---------------------------------------------------------------------------
(* get_classes and get_class: the loader named by the setting               *)
(* XENTLY_DYNAMIC_CLASS_LOADER is resolved by get_class_loader, which is    *)
(* wrapped in lru_cache, and the call is handed to it.                      *)

DefaultLoaderPath == <<"xently", "core", "loading", "default_class_loader">>

\* a loader of the host project, and a path that names nothing
CustomLoaderPath == <<"shop", "loading", "custom_loader">>

MissingLoaderPath == <<"shop", "loading", "missing">>

LoaderSettings == {NoSetting, DefaultLoaderPath, CustomLoaderPath, MissingLoaderPath}

\* import_string: the attribute named by the last segment of the path, in
\* the module named by the segments before it; ImportError when there is none
import_string(dotted_path) ==
    IF dotted_path \in {DefaultLoaderPath, CustomLoaderPath}
    THEN [raised |-> FALSE, callable |-> dotted_path[Len(dotted_path)]]
    ELSE [raised |-> TRUE, callable |-> "None"]

\* mutant: get_class_loader without lru_cache
get_class_loader_uncached ==
    LET path == IF loader_setting = NoSetting THEN DefaultLoaderPath ELSE loader_setting
        imported == import_string(path)
    IN  [raised |-> imported.raised, callable |-> imported.callable,
         cache |-> loader_cache, resolved |-> ~imported.raised]

\* get_class_loader: the cached callable when there is one; otherwise
\* import_string on the setting (or its default), cached when it returns.
\* lru_cache stores a return value, never an exception.
get_class_loader ==
    IF loader_cache.filled
    THEN [raised |-> FALSE, callable |-> loader_cache.callable,
          cache |-> loader_cache, resolved |-> FALSE]
    ELSE LET path == IF loader_setting = NoSetting THEN DefaultLoaderPath ELSE loader_setting
             imported == import_string(path)
         IN  IF imported.raised
             THEN [raised |-> TRUE, callable |-> "None",
                   cache |-> loader_cache, resolved |-> FALSE]
             ELSE [raised |-> FALSE, callable |-> imported.callable,
                   cache |-> [filled |-> TRUE, callable |-> imported.callable],
                   resolved |-> TRUE]

\* the host project's loader: it takes every class from its own module
custom_loader(module_label, classnames, module_prefix) ==
    Returned([i \in 1..Len(classnames) |-> ClassOf(<<"shop", "loading">>, classnames[i])])

\* get_classes: the prefix defaults to the setting's, the loader is got and
\* called; with the outcome, the loader dispatched to, the cache afterwards
\* and whether this call resolved the loader
get_classes(module_label, classnames, module_prefix) ==
    LET prefix == IF module_prefix = <<>> THEN ModulePrefix ELSE module_prefix
        class_loader == get_class_loader
    IN  [result |-> IF class_loader.raised
                    THEN Raised("ImportError", loader_setting)
                    ELSE IF class_loader.callable = "default_class_loader"
                    THEN default_class_loader(module_label, classnames, prefix)
                    ELSE custom_loader(module_label, classnames, prefix),
         loader |-> class_loader.callable,
         cache |-> class_loader.cache,
         resolved |-> class_loader.resolved]

\* get_class: get_classes(module_label, [classname], module_prefix)[0]
get_class(module_label, classname, module_prefix) ==
    LET got == get_classes(module_label, <<classname>>, module_prefix)
    IN  IF got.result.kind = "ok"
        THEN [got EXCEPT !.result = [kind |-> "class", classes |-> <<got.result.classes[1]>>,
                                     detail |-> <<>>]]
        ELSE got

\* module_prefix as the callers pass it: None, or the prefix
PrefixArgs == {<<>>, ModulePrefix}

InitClasses ==
    /\ registry \in [AppLabels -> AppNames \cup {NoApp}]
    /\ mods \in ModuleStores({ModulePrefix \o <<"cat", "forms">>})
    /\ user = NoUser
    /\ permissions = NoPermissions
    /\ project = NoProject /\ app_attrs = <<>> /\ callbacks = <<>> /\ evals = 0
    /\ composed = <<>>
    /\ loader_setting \in LoaderSettings /\ loader_cache = EmptyCache /\ resolutions = 0
    /\ call = NoCall
    /\ result = NoResult

CallGetClasses ==
    \E module_label \in ModuleLabels, classnames \in SeqsUpTo(ClassNames, MaxNames),
       module_prefix \in PrefixArgs :
        LET got == get_classes(module_label, classnames, module_prefix)
        IN  /\ call' = [op |-> "get_classes", loader |-> got.loader, resolved |-> got.resolved]
            /\ result' = got.result
            /\ loader_cache' = got.cache
            /\ resolutions' = IF got.resolved THEN resolutions + 1 ELSE resolutions
            /\ UNCHANGED <<registry, mods, user, permissions, project, app_attrs, callbacks,
                           evals, composed, loader_setting>>

CallGetClass ==
    \E module_label \in ModuleLabels, classname \in ClassNames, module_prefix \in PrefixArgs :
        LET got == get_class(module_label, classname, module_prefix)
        IN  /\ call' = [op |-> "get_class", loader |-> got.loader, resolved |-> got.resolved]
            /\ result' = got.result
            /\ loader_cache' = got.cache
            /\ resolutions' = IF got.resolved THEN resolutions + 1 ELSE resolutions
            /\ UNCHANGED <<registry, mods, user, permissions, project, app_attrs, callbacks,
                           evals, composed, loader_setting>>

\* the setting is changed while the process runs (override_settings)
SetLoaderSetting ==
    \E value \in LoaderSettings \ {loader_setting} :
        /\ loader_setting' = value
        /\ call' = [op |-> "override_settings", loader |-> "None", resolved |-> FALSE]
        /\ result' = NoResult
        /\ UNCHANGED <<registry, mods, user, permissions, project, app_attrs, callbacks, evals,
                       composed, loader_cache, resolutions>>

NextClasses == CallGetClasses \/ CallGetClass \/ SetLoaderSetting

SpecClasses == InitClasses /\ [][NextClasses]_vars

---------------------------------------------------------------------------
(* xently/decorators.py                                                    *)
(*                                                                         *)
(* A permission identifier is the sequence of its dot-separated segments:  *)
(* <<"is_staff">> is a bare identifier, <<"partner", "dashboard_access">>  *)
(* a dotted one ("." in perm).                                             *)

BareIds == {<<"is_anonymous">>, <<"is_active">>, <<"is_staff">>}

DottedIds == {<<"partner", "dashboard_access">>, <<"catalogue", "change_product">>}

PermissionIds == BareIds \cup DottedIds

\* The users of the framework: AnonymousUser (anonymous, not authenticated,
\* inactive, not staff) and the authenticated users, active or not, staff or
\* not. attrs gives the truth of a bare attribute or method of the user;
\* granted is what the authorization backends grant (has_perm).
Users ==
    {[attrs |-> [is_anonymous |-> TRUE, is_authenticated |-> FALSE,
                 is_active |-> FALSE, is_staff |-> FALSE],
      granted |-> g] : g \in SUBSET DottedIds}
    \cup
    {[attrs |-> [is_anonymous |-> FALSE, is_authenticated |-> TRUE,
                 is_active |-> a, is_staff |-> s],
      granted |-> g] : a \in BOOLEAN, s \in BOOLEAN, g \in SUBSET DottedIds}

\* A permission specification: None, a flat list, or a tuple of flat lists
ListSpec(items) == [type |-> "list", items |-> items]

TupleSpec(lists) == [type |-> "tuple", items |-> lists]

FlatLists == SeqsUpTo(PermissionIds, MaxPerms)

\* the lists the tuples are made of: the empty list, every single identifier,
\* and every bare identifier followed by a dotted one
MemberLists ==
    {<<>>} \cup {<<perm>> : perm \in PermissionIds}
        \cup {<<bare, dotted>> : bare \in BareIds, dotted \in DottedIds}

PermissionSpecs ==
    {NoPermissions}
        \cup {ListSpec(l) : l \in FlatLists}
        \cup {TupleSpec(t) : t \in SeqsUpTo(MemberLists, MaxLists)}

IsDotted(perm) == Len(perm) > 1

IsBare(perm) == ~IsDotted(perm)

\* getattr(user, perm), called when callable, cast to bool otherwise
Condition(u, perm) == u.attrs[perm[1]]

\* user.has_perms(perm_list): every permission of the list is granted
HasPerms(u, perm_list) == \A i \in 1..Len(perm_list) : perm_list[i] \in u.granted

\* mutant: is_active is appended whenever there is a bare condition
_check_one_permission_list_always_active(u, perms) ==
    LET regular_permissions == SelectSeq(perms, IsDotted)
        bare == SelectSeq(perms, IsBare)
        conditions ==
            IF bare # <<>> /\ <<"is_active">> \notin Range(bare)
            THEN Append(bare, <<"is_active">>)
            ELSE bare
        passes_conditions == \A i \in 1..Len(conditions) : Condition(u, conditions[i])
    IN  passes_conditions /\ HasPerms(u, regular_permissions)

_check_one_permission_list(u, perms) ==
    LET regular_permissions == SelectSeq(perms, IsDotted)
        bare == SelectSeq(perms, IsBare)
        conditions ==
            IF /\ bare # <<>>
               /\ <<"is_anonymous">> \notin Range(bare)
               /\ <<"is_active">> \notin Range(bare)
            THEN Append(bare, <<"is_active">>)
            ELSE bare
        passes_conditions == \A i \in 1..Len(conditions) : Condition(u, conditions[i])
    IN  passes_conditions /\ HasPerms(u, regular_permissions)

\* not permissions: None, [] and () are falsy
Falsy(spec) == spec.type = "None" \/ spec.items = <<>>

\* mutant: every list of a tuple has to pass
check_permissions_all(u, spec) ==
    IF Falsy(spec) THEN TRUE
    ELSE IF spec.type = "list" THEN _check_one_permission_list(u, spec.items)
    ELSE \A i \in 1..Len(spec.items) : _check_one_permission_list(u, spec.items[i])

check_permissions(u, spec) ==
    IF Falsy(spec) THEN TRUE
    ELSE IF spec.type = "list" THEN _check_one_permission_list(u, spec.items)
    ELSE \E i \in 1..Len(spec.items) : _check_one_permission_list(u, spec.items[i])

\* login_url=None: the decorator falls back on settings.LOGIN_URL
NoLoginUrl == "None"

SettingsLoginUrl == "/accounts/login/"

LoginUrls == {NoLoginUrl, "/dashboard/login/"}

\* what a request to a view ends in
ViewInvoked == [kind |-> "view", location |-> ""]

RedirectToLogin(login_url) ==
    [kind |-> "redirect",
     location |-> IF login_url = NoLoginUrl THEN SettingsLoginUrl ELSE login_url]

GenericPermissionDenied == [kind |-> "PermissionDenied", location |-> ""]

ApiPermissionDenied == [kind |-> "APIPermissionDenied", location |-> ""]

\* permissions_required._check_permissions: the outcome of the test, or the
\* exception it raises; rest_framework tells whether the import succeeds
_check_permissions(u, spec, api_exception, rest_framework) ==
    LET outcome == check_permissions(u, spec)
    IN  IF ~outcome /\ u.attrs.is_authenticated
        THEN [raised |-> TRUE, outcome |-> outcome,
              exception |-> IF api_exception /\ rest_framework
                            THEN ApiPermissionDenied
                            ELSE GenericPermissionDenied]
        ELSE [raised |-> FALSE, outcome |-> outcome, exception |-> GenericPermissionDenied]

\* mutant: a failing user is refused with an exception, logged in or not
permissions_required_always_raises(u, spec, login_url, api_exception, rest_framework) ==
    IF check_permissions(u, spec) THEN ViewInvoked
    ELSE IF api_exception /\ rest_framework THEN ApiPermissionDenied
    ELSE GenericPermissionDenied

\* a request by user u to a view wrapped by
\* permissions_required(spec, login_url, api_exception): user_passes_test
\* calls the view when the test passes and redirects to the login URL when not
permissions_required(u, spec, login_url, api_exception, rest_framework) ==
    LET test == _check_permissions(u, spec, api_exception, rest_framework)
    IN  IF test.raised THEN test.exception
        ELSE IF test.outcome THEN ViewInvoked
        ELSE RedirectToLogin(login_url)

---------------------------------------------------------------------------
(* The evaluator and the decorator at work: some user, some permission     *)
(* specification; the evaluator is called, or a wrapped view is requested. *)

InitPerm ==
    /\ registry = [a \in AppLabels |-> NoApp]
    /\ mods = [p \in ModulePaths |-> Absent]
    /\ user \in Users
    /\ permissions \in PermissionSpecs
    /\ project = NoProject /\ app_attrs = <<>> /\ callbacks = <<>> /\ evals = 0
    /\ composed = <<>>
    /\ loader_setting = NoSetting /\ loader_cache = EmptyCache /\ resolutions = 0
    /\ call = NoCall
    /\ result = NoResult

CallCheckPermissions ==
    /\ call' = [op |-> "check_permissions"]
    /\ result' = [kind |-> "bool", value |-> check_permissions(user, permissions)]
    /\ UNCHANGED <<registry, mods, user, permissions, project, app_attrs, callbacks, evals,
                     composed, loader_setting, loader_cache, resolutions>>

RequestWrappedView ==
    \E login_url \in LoginUrls, api_exception \in BOOLEAN, rest_framework \in BOOLEAN :
        /\ call' = [op |-> "view", login_url |-> login_url,
                    api_exception |-> api_exception, rest_framework |-> rest_framework]
        /\ result' = permissions_required(user, permissions, login_url,
                                          api_exception, rest_framework)
        /\ UNCHANGED <<registry, mods, user, permissions, project, app_attrs, callbacks, evals,
                     composed, loader_setting, loader_cache, resolutions>>

NextPerm == CallCheckPermissions \/ RequestWrappedView

SpecPerm == InitPerm /\ [][NextPerm]_vars

---------------------------------------------------------------------------
(* xently/config.py                                                        *)
(*                                                                         *)
(* The application configurations of a project: a dashboard that declares  *)
(* three child apps, one of which declares a child of its own. An app is   *)
(* known by its label. The classes below are the project's subclasses of   *)
(* XentlyAppConfig: their attributes, and the routes their get_urls adds   *)
(* to what the base get_urls (the auto-loaded routes) returns.             *)

ConfigApps == {"dashboard", "catalogue", "api_orders", "reports", "offers"}

RootApp == "dashboard"

\* labels that can be left out of INSTALLED_APPS
OptionalApps == {"catalogue", "api_orders", "reports"}

\* app_config.name of an installed app
ConfigName(label) == <<"shop", label>>

\* get_installed_app_config: the app config of the label, None when the
\* registry raises LookupError
NoneAttr == "None"

get_installed_app_config(app_label) ==
    IF app_label \in DOMAIN registry /\ registry[app_label] # NoApp
    THEN app_label
    ELSE NoneAttr

\* an attribute ready() has not set yet
Unset == "unset"

\* a value of the label -> endpoint mapping: an endpoint string, or a dict
\* with the optional keys endpoint and regex
NoEndpoint == "None"

StrValue(endpoint) ==
    [isdict |-> FALSE, endpoint |-> endpoint, has_regex |-> FALSE, regex |-> FALSE]

DictValue(endpoint, has_regex, regex) ==
    [isdict |-> TRUE, endpoint |-> endpoint, has_regex |-> has_regex, regex |-> regex]

\* get_app_label_url_endpoint_mapping(), in the order of declaration
Mapping(app) ==
    CASE app = "dashboard" ->
            << [label |-> "catalogue", value |-> StrValue("catalogue/")],
               [label |-> "api_orders", value |-> DictValue("^api/orders/", TRUE, TRUE)],
               [label |-> "reports", value |-> DictValue(NoEndpoint, FALSE, FALSE)] >>
      [] app = "catalogue" ->
            << [label |-> "offers", value |-> StrValue("offers/")] >>
      [] OTHER -> <<>>

MappingLabels(app) == {Mapping(app)[i].label : i \in 1..Len(Mapping(app))}

\* reports subclasses AppConfigMixin alone: it has urls and a namespace but
\* no include_urls_in_parent attribute
HasAutoLoadMixin(app) == app # "reports"

\* the class attribute include_urls_in_parent (False in the mixin)
IncludeUrlsInParent(app) ==
    CASE app = "dashboard" -> project.include_urls_in_parent
      [] app = "api_orders" -> TRUE
      [] app = "offers" -> TRUE
      [] OTHER -> FALSE

\* namespace: the label unless the class sets one (AppConfigMixin.__init__)
Namespace(app) == IF app = "reports" THEN "rep" ELSE app

LoginUrl(app) == IF app = "dashboard" THEN "/dashboard/login/" ELSE NoLoginUrl

AutoProcessUrls(app) == app # "offers"

\* the first four characters of each label, for label.startswith("api_")
LabelHead ==
    [dashboard |-> "dash", catalogue |-> "cata", api_orders |-> "api_",
     reports |-> "repo", offers |-> "offe"]

StartsWithApi(label) == LabelHead[label] = "api_"

IsStaff == ListSpec(<< <<"is_staff">> >>)

\* permissions_map of each app: bare view name -> permission specification
PermissionsMap(app) ==
    CASE app = "dashboard" ->
            [index |-> IsStaff,
             offer_list |-> TupleSpec(<< << <<"is_staff">> >>,
                                         << <<"partner", "dashboard_access">> >> >>)]
      [] app = "api_orders" ->
            [order_list |-> ListSpec(<< <<"catalogue", "change_product">> >>)]
      [] app = "reports" ->
            [summary |-> ListSpec(<< <<"partner", "dashboard_access">> >>)]
      [] OTHER -> <<>>

\* default_permissions of each app: None in the mixin
DefaultPermissions(app) ==
    CASE app = "catalogue" -> IsStaff
      [] app = "api_orders" -> ListSpec(<< <<"is_active">> >>)
      [] app = "reports" -> ListSpec(<<>>)
      [] OTHER -> NoPermissions

\* A route name is the sequence of its colon-separated parts; <<>> is None
NoName == <<>>

NoViewName == "None"

\* the URLPattern objects the apps' get_urls declare: name, view and owner
Patterns ==
    << [name |-> <<"index">>, view |-> "DashboardIndex", app |-> "dashboard"],
       [name |-> <<"order_list">>, view |-> "OrderList", app |-> "api_orders"],
       [name |-> NoName, view |-> "OrderExport", app |-> "api_orders"],
       [name |-> <<"reports", "summary">>, view |-> "Summary", app |-> "reports"],
       [name |-> <<"offer_list">>, view |-> "OfferList", app |-> "offers"] >>

PatternIds == DOMAIN Patterns

\* names get_permissions is asked about: those of the routes, and names with
\* one and with two levels of namespace
RouteNames ==
    {Patterns[i].name : i \in PatternIds}
        \cup {<<"unknown">>, <<"dashboard", "index">>, <<"dashboard", "catalogue", "index">>,
              <<"index", "catalogue", "detail">>}

\* a view with the access decorators wrapped around it, innermost first
Bare(view) == [view |-> view, wraps |-> <<>>]

Wrap(decorator, callback) ==
    [view |-> callback.view, wraps |-> Append(callback.wraps, decorator)]

\* a request by user u to a callback: the outermost decorator decides first,
\* and hands over to what it wraps when its check passes
RECURSIVE InvokeCallback(_, _, _)
InvokeCallback(callback, u, rest_framework) ==
    IF callback.wraps = <<>> THEN ViewInvoked
    ELSE LET outer == callback.wraps[Len(callback.wraps)]
             inner == [view |-> callback.view,
                       wraps |-> SubSeq(callback.wraps, 1, Len(callback.wraps) - 1)]
             outcome == permissions_required(u, outer.permissions, outer.login_url,
                                             outer.api_exception, rest_framework)
         IN  IF outcome.kind = "view"
             THEN InvokeCallback(inner, u, rest_framework)
             ELSE outcome

\* a node of a route tree: a URLPattern (a leaf) or a URLResolver
Leaf(id) ==
    [kind |-> "pattern", id |-> id, name |-> Patterns[id].name, endpoint |-> "",
     regex |-> FALSE, app_name |-> "", namespace |-> "", url_patterns |-> <<>>]

NoNamespace == "None"

\* include(list): no application namespace, no instance namespace
Include(urlpatterns) ==
    [urls |-> urlpatterns, app_name |-> NoNamespace, namespace |-> NoNamespace]

\* include((list, app_name)): the instance namespace defaults to app_name
IncludeNamespaced(urlpatterns, app_name) ==
    [urls |-> urlpatterns, app_name |-> app_name, namespace |-> app_name]

\* mutant: path() is used whatever the regex flag
MountPlain(endpoint, regex, included) ==
    [kind |-> "resolver", id |-> 0, name |-> NoName, endpoint |-> endpoint,
     regex |-> FALSE, app_name |-> included.app_name, namespace |-> included.namespace,
     url_patterns |-> included.urls]

\* path(endpoint, (urls, app_name, namespace)) or re_path(...): a URLResolver
Mount(endpoint, regex, included) ==
    [kind |-> "resolver", id |-> 0, name |-> NoName, endpoint |-> endpoint,
     regex |-> regex, app_name |-> included.app_name, namespace |-> included.namespace,
     url_patterns |-> included.urls]

\* get_permissions: url.split(":")[1] when the name has a colon, the name
\* itself otherwise; permissions_map.get(view_name, default_permissions)
get_permissions(app, url) ==
    LET view_name ==
            IF url # NoName /\ Len(url) > 1 THEN url[2]
            ELSE IF url = NoName THEN NoViewName ELSE url[1]
    IN  IF view_name \in DOMAIN PermissionsMap(app)
        THEN PermissionsMap(app)[view_name]
        ELSE DefaultPermissions(app)

NoDecorator == [permissions |-> NoPermissions, login_url |-> NoLoginUrl, api_exception |-> FALSE]

\* get_url_decorator: None when the permissions are falsy, else
\* permissions_required(permissions, login_url, label.startswith("api_"))
get_url_decorator(app, pattern) ==
    LET perms == get_permissions(app, pattern.name)
    IN  IF ~Falsy(perms)
        THEN [permissions |-> perms, login_url |-> LoginUrl(app),
              api_exception |-> StartsWithApi(app)]
        ELSE NoDecorator

\* the loop of _post_processed_urls: the callbacks after the patterns, and
\* the patterns nested in them, have been decorated
RECURSIVE Decorated(_, _, _)
Decorated(app, urlpatterns, cbs) ==
    IF urlpatterns = <<>> THEN cbs
    ELSE LET pattern == Head(urlpatterns)
             nested == IF pattern.kind = "resolver"
                       THEN Decorated(app, pattern.url_patterns, cbs)
                       ELSE cbs
             decorator == get_url_decorator(app, pattern)
             own == IF pattern.kind = "pattern" /\ decorator # NoDecorator
                    THEN [nested EXCEPT ![pattern.id] = Wrap(decorator, @)]
                    ELSE nested
         IN  Decorated(app, Tail(urlpatterns), own)

\* mutant: nested route collections are not descended into
RECURSIVE DecoratedTopLevel(_, _, _)
DecoratedTopLevel(app, urlpatterns, cbs) ==
    IF urlpatterns = <<>> THEN cbs
    ELSE LET pattern == Head(urlpatterns)
             decorator == get_url_decorator(app, pattern)
             own == IF pattern.kind = "pattern" /\ decorator # NoDecorator
                    THEN [cbs EXCEPT ![pattern.id] = Wrap(decorator, @)]
                    ELSE cbs
         IN  DecoratedTopLevel(app, Tail(urlpatterns), own)

_post_processed_urls_top_level(app, urlpatterns, cbs) ==
    [ok |-> TRUE, urls |-> urlpatterns, callbacks |-> DecoratedTopLevel(app, urlpatterns, cbs)]

\* _post_processed_urls: the list it was given, and the callbacks rewritten
_post_processed_urls(app, urlpatterns, cbs) ==
    [ok |-> TRUE, urls |-> urlpatterns, callbacks |-> Decorated(app, urlpatterns, cbs)]

\* the URLPattern objects of an app's own get_urls
OwnIds(app) ==
    IF app \in project.routed
    THEN {i \in PatternIds : Patterns[i].app = app}
    ELSE {}

RECURSIVE Leaves(_, _)
Leaves(ids, from) ==
    IF from > Len(Patterns) THEN <<>>
    ELSE (IF from \in ids THEN <<Leaf(from)>> ELSE <<>>) \o Leaves(ids, from + 1)

\* getattr(self, f"{label}_app"): AttributeError before ready()
ChildAttr(app, label) == app_attrs[app][label]

AttributeError(cbs) == [ok |-> FALSE, urls |-> <<>>, callbacks |-> cbs]

\* not child_app_urls: the child has no route
NoRoutesNever(urlpatterns) == FALSE

NoRoutes(urlpatterns) == urlpatterns = <<>>

RECURSIVE AutoLoaded(_, _, _, _), urls(_, _), get_urls(_, _)

\* the loop of get_auto_loaded_urls over the entries of the mapping left, with
\* the list built so far
AutoLoaded(app, entries, mounted, cbs) ==
    IF entries = <<>> THEN [ok |-> TRUE, urls |-> mounted, callbacks |-> cbs]
    ELSE
    LET label == Head(entries).label
        value == Head(entries).value
        endpoint == IF value.isdict
                    THEN (IF value.endpoint = NoEndpoint THEN "" ELSE value.endpoint)
                    ELSE value.endpoint
        regex == IF value.isdict THEN value.has_regex /\ value.regex ELSE FALSE
        app_config == ChildAttr(app, label)
        inline == IF HasAutoLoadMixin(app_config)
                  THEN IncludeUrlsInParent(app_config)
                  ELSE IncludeUrlsInParent(app)
        \* app_config.urls, evaluated once on either branch
        child == urls(app_config, cbs)
        child_app_urls ==
            IF inline
            THEN (IF project.NAMESPACE_AUTO_INCLUDED_URLS
                  THEN IncludeNamespaced(child.urls, Namespace(app_config))
                  ELSE Include(child.urls))
            ELSE [urls |-> child.urls, app_name |-> app_config,
                  namespace |-> Namespace(app_config)]
    IN  IF app_config = Unset THEN AttributeError(cbs)
        ELSE IF app_config = NoneAttr
        THEN AutoLoaded(app, Tail(entries), mounted, cbs)
        ELSE IF ~child.ok THEN child
        ELSE IF NoRoutes(child.urls)
        THEN AutoLoaded(app, Tail(entries), mounted, child.callbacks)
        ELSE AutoLoaded(app, Tail(entries),
                        Append(mounted, Mount(endpoint, regex, child_app_urls)),
                        child.callbacks)

\* mutant: the list is kept between calls instead of starting from []
get_auto_loaded_urls_kept_list(app, cbs) ==
    AutoLoaded(app, Mapping(app),
               IF composed["get_auto_loaded_urls"][app] = NoResult
               THEN <<>>
               ELSE composed["get_auto_loaded_urls"][app].urls,
               cbs)

get_auto_loaded_urls(app, cbs) == AutoLoaded(app, Mapping(app), <<>>, cbs)

\* get_urls as the project's classes override it: the app's own routes,
\* then super().get_urls(), the auto-loaded routes. An app that builds its
\* routes in get_urls makes new URLPattern objects on every call; an app that
\* keeps them (project.kept_patterns) hands out the same objects again.
get_urls(app, cbs) ==
    LET own == OwnIds(app)
        fresh == IF project.kept_patterns THEN cbs
                 ELSE [i \in PatternIds |->
                          IF i \in own THEN Bare(Patterns[i].view) ELSE cbs[i]]
        auto == get_auto_loaded_urls(app, fresh)
    IN  IF ~auto.ok THEN auto
        ELSE [ok |-> TRUE, urls |-> Leaves(own, 1) \o auto.urls, callbacks |-> auto.callbacks]

\* the urls property: get_urls, post-processed when auto_process_urls
urls(app, cbs) ==
    LET got == get_urls(app, cbs)
    IN  IF ~got.ok THEN got
        ELSE IF AutoProcessUrls(app)
        THEN _post_processed_urls(app, got.urls, got.callbacks)
        ELSE got

---------------------------------------------------------------------------
(* The configuration's state machine: the apps are readied, then their     *)
(* routes are composed and decorated, any number of times.                 *)

Installed == {a \in ConfigApps : get_installed_app_config(a) = a}

UrlsResult(r) ==
    IF r.ok THEN [kind |-> "urls", urls |-> r.urls] ELSE [kind |-> "AttributeError", urls |-> <<>>]

\* the compositions of routes, and the record of what each returned the first
\* time it returned a route list for an app
CompositionOps == {"get_auto_loaded_urls", "urls"}

Recorded(op, app, r) ==
    IF r.ok /\ composed[op][app] = NoResult
    THEN [composed EXCEPT ![op][app] = UrlsResult(r)]
    ELSE composed

InitConfig ==
    /\ \E installed \in SUBSET OptionalApps :
          registry = [a \in ConfigApps |->
                        IF a \in OptionalApps \ installed THEN NoApp ELSE ConfigName(a)]
    /\ mods = [p \in ModulePaths |-> Absent]
    /\ user = NoUser
    /\ permissions = NoPermissions
    /\ project \in [loaded : {TRUE},
                    include_urls_in_parent : BOOLEAN,
                    NAMESPACE_AUTO_INCLUDED_URLS : BOOLEAN,
                    kept_patterns : BOOLEAN,
                    routed : {{"dashboard", "api_orders"} \cup r : r \in SUBSET {"reports", "offers"}}]
    /\ app_attrs = [a \in ConfigApps |-> [l \in MappingLabels(a) |-> Unset]]
    /\ callbacks = [i \in PatternIds |-> Bare(Patterns[i].view)]
    /\ evals = 0
    /\ composed = [op \in CompositionOps |-> [a \in ConfigApps |-> NoResult]]
    /\ loader_setting = NoSetting /\ loader_cache = EmptyCache /\ resolutions = 0
    /\ call = NoCall
    /\ result = NoResult

\* ready(): _create_required_attributes
Ready(app) ==
    /\ app \in Installed
    /\ Mapping(app) # <<>>
    /\ app_attrs' = [app_attrs EXCEPT ![app] =
                        [l \in MappingLabels(app) |-> get_installed_app_config(l)]]
    /\ call' = [op |-> "ready", app |-> app]
    /\ result' = NoResult
    /\ UNCHANGED <<registry, mods, user, permissions, project, callbacks, evals,
                 composed, loader_setting, loader_cache, resolutions>>

CallGetAutoLoadedUrls(app) ==
    /\ app \in Installed
    /\ evals < MaxEvals
    /\ LET r == get_auto_loaded_urls(app, callbacks)
       IN  /\ result' = UrlsResult(r)
           /\ callbacks' = r.callbacks
    /\ call' = [op |-> "get_auto_loaded_urls", app |-> app, before |-> callbacks]
    /\ composed' = Recorded("get_auto_loaded_urls", app, get_auto_loaded_urls(app, callbacks))
    /\ evals' = evals + 1
    /\ UNCHANGED <<registry, mods, user, permissions, project, app_attrs,
                 loader_setting, loader_cache, resolutions>>

CallUrls(app) ==
    /\ app \in Installed
    /\ evals < MaxEvals
    /\ LET r == urls(app, callbacks)
       IN  /\ result' = UrlsResult(r)
           /\ callbacks' = r.callbacks
    /\ call' = [op |-> "urls", app |-> app, before |-> callbacks]
    /\ composed' = Recorded("urls", app, urls(app, callbacks))
    /\ evals' = evals + 1
    /\ UNCHANGED <<registry, mods, user, permissions, project, app_attrs,
                 loader_setting, loader_cache, resolutions>>

\* _post_processed_urls called on the route list the last call returned
CallPostProcessedUrls(app) ==
    /\ app \in Installed
    /\ evals < MaxEvals
    /\ result.kind = "urls"
    /\ LET r == _post_processed_urls(app, result.urls, callbacks)
       IN  /\ result' = UrlsResult(r)
           /\ callbacks' = r.callbacks
    /\ call' = [op |-> "_post_processed_urls", app |-> app, urlpatterns |-> result.urls,
                before |-> callbacks]
    /\ composed' = composed
    /\ evals' = evals + 1
    /\ UNCHANGED <<registry, mods, user, permissions, project, app_attrs,
                 loader_setting, loader_cache, resolutions>>

CallGetPermissions(app, url) ==
    /\ app \in Installed
    /\ call' = [op |-> "get_permissions", app |-> app, url |-> url]
    /\ result' = [kind |-> "permissions", value |-> get_permissions(app, url)]
    /\ UNCHANGED <<registry, mods, user, permissions, project, app_attrs, callbacks, evals,
                     composed, loader_setting, loader_cache, resolutions>>

NextConfig ==
    \/ \E app \in ConfigApps : Ready(app)
    \/ \E app \in ConfigApps : CallGetAutoLoadedUrls(app)
    \/ \E app \in ConfigApps : CallUrls(app)
    \/ \E app \in ConfigApps : CallPostProcessedUrls(app)

SpecConfig == InitConfig /\ [][NextConfig]_vars

\* the urls property evaluated again and again, and nothing else that
\* rewrites callbacks
NextUrls ==
    \/ \E app \in ConfigApps : Ready(app)
    \/ \E app \in ConfigApps : CallUrls(app)

SpecUrls == InitConfig /\ [][NextUrls]_vars

\* get_permissions on its own: it reads the class attributes alone
NextLookup == \E app \in ConfigApps, url \in RouteNames : CallGetPermissions(app, url)

SpecLookup == InitConfig /\ [][NextLookup]_vars

---------------------------------------------------------------------------
(* Claims about the class loader                                           *)

LoaderCalled == call.op = "default_class_loader"

LoaderLabelDotted == Len(call.module_label) > 1

\* the name the label's owning app is registered under, NoApp when it is not
OwningApp == registry[Head(call.module_label)]

LibraryPath == ModulePrefix \o call.module_label

\* the host project's module of the same relative path
OverridePath == OwningApp \o Tail(call.module_label)

UnderLibrary ==
    /\ Len(OwningApp) > Len(ModulePrefix)
    /\ SubSeq(OwningApp, 1, Len(ModulePrefix)) = ModulePrefix

\* an app registered under the library prefix has no override module
OverrideDefines(classname) ==
    /\ ~UnderLibrary
    /\ mods[OverridePath].status = "ok"
    /\ classname \in mods[OverridePath].attrs

LibraryDefines(classname) ==
    /\ mods[LibraryPath].status = "ok"
    /\ classname \in mods[LibraryPath].attrs

ImportsDoNotRaise ==
    /\ mods[LibraryPath].status # "broken"
    /\ UnderLibrary \/ mods[OverridePath].status # "broken"

\* C1: for a dotted label of a registered app, whatever default_class_loader
\* returns holds one class per requested name in request order, the i-th
\* being the override module's class when that module defines the i-th name
\* and the library module's class only when it does not; and it does return
\* whenever at least one name is requested, neither import raises and every
\* name is defined in one of the two modules.
C1_OverrideFirst ==
    (LoaderCalled /\ LoaderLabelDotted /\ OwningApp # NoApp) =>
        /\ result.kind = "ok" =>
                /\ Len(result.classes) = Len(call.classnames)
                /\ \A i \in 1..Len(call.classnames) :
                        IF OverrideDefines(call.classnames[i])
                        THEN result.classes[i] =
                                [module |-> OverridePath, name |-> call.classnames[i]]
                        ELSE /\ LibraryDefines(call.classnames[i])
                             /\ result.classes[i] =
                                    [module |-> LibraryPath, name |-> call.classnames[i]]
        /\ ( /\ call.classnames # <<>>
             /\ ImportsDoNotRaise
             /\ \A i \in 1..Len(call.classnames) :
                    OverrideDefines(call.classnames[i]) \/ LibraryDefines(call.classnames[i])
           ) => result.kind = "ok"

\* two names resolved in one call, the first from the library (the override
\* module exists and lacks it), the second from the override module although
\* the library defines it too
C1_Witness ==
    /\ LoaderCalled /\ LoaderLabelDotted /\ OwningApp # NoApp
    /\ result.kind = "ok"
    /\ Len(call.classnames) = 2
    /\ ~UnderLibrary /\ mods[OverridePath].status = "ok"
    /\ ~OverrideDefines(call.classnames[1])
    /\ OverrideDefines(call.classnames[2]) /\ LibraryDefines(call.classnames[2])
    /\ result.classes[1].module = LibraryPath
    /\ result.classes[2].module = OverridePath

PluckCalled == call.op = "_pluck_classes"

DefinedIn(module, classname) ==
    /\ module # NoModule
    /\ classname \in mods[module].attrs

\* the positions of the requested names that no searched module defines
Unresolvable ==
    {i \in 1..Len(call.classnames) :
        \A k \in 1..Len(call.modules) : ~DefinedIn(call.modules[k], call.classnames[i])}

C3_ModuleNotFound ==
    ( /\ LoaderCalled /\ LoaderLabelDotted /\ OwningApp # NoApp
      /\ mods[LibraryPath].status = "absent"
      /\ UnderLibrary \/ mods[OverridePath].status = "absent"
    ) =>
        /\ result.kind = "ModuleNotFoundError"
        /\ result.kind \notin {"ClassNotFoundError", "AppNotFoundError", "ok"}
        /\ result.classes = <<>>

\* the empty list of names, for an app registered under the library prefix
\* whose own module exists and is not imported
C3_Witness ==
    /\ LoaderCalled /\ LoaderLabelDotted /\ OwningApp # NoApp
    /\ call.classnames = <<>>
    /\ UnderLibrary
    /\ OverridePath # LibraryPath
    /\ mods[OverridePath].status = "ok"
    /\ mods[LibraryPath].status = "absent"
    /\ result.kind = "ModuleNotFoundError"

\* C4 as stated: for a dotted label whose first segment is the label of no
\* registered app, default_class_loader raises AppNotFoundError, whatever
\* the state of the library module of that label.
C4_AppNotFound_AsStated ==
    (LoaderCalled /\ LoaderLabelDotted /\ OwningApp = NoApp) =>
        result.kind = "AppNotFoundError"

\* C4, amended: for a dotted label whose first segment is the label of no
\* registered app, default_class_loader raises AppNotFoundError (neither
\* ModuleNotFoundError nor ClassNotFoundError) whether the library module is
\* absent or imports, with or without the requested classes; when importing
\* the library module raises an ImportError of its own, that error is
\* raised instead, the import coming before the registry lookup.
C4_AppNotFound ==
    (LoaderCalled /\ LoaderLabelDotted /\ OwningApp = NoApp) =>
        IF mods[LibraryPath].status = "broken"
        THEN result.kind = "ImportError"
        ELSE result.kind = "AppNotFoundError"

\* an unregistered app and an absent library module: AppNotFoundError
C4_Witness ==
    /\ LoaderCalled /\ LoaderLabelDotted /\ OwningApp = NoApp
    /\ mods[LibraryPath].status = "absent"
    /\ call.classnames # <<>>
    /\ result.kind = "AppNotFoundError"

---------------------------------------------------------------------------
(* Claims about the permission evaluator and the access decorator          *)

EvaluatorCalled == call.op = "check_permissions"

\* the flat-list rule, on the identifiers of a list taken as a set: the
\* bare ones, plus is_active when there is a bare one and the list names
\* neither is_anonymous nor is_active, are true of the user, and the dotted
\* ones are granted
BareOf(L) == {perm \in L : Len(perm) = 1}

Checked(L) ==
    BareOf(L) \cup
        (IF BareOf(L) # {} /\ <<"is_anonymous">> \notin L /\ <<"is_active">> \notin L
         THEN {<<"is_active">>}
         ELSE {})

FlatRule(u, L) ==
    /\ \A perm \in Checked(L) : u.attrs[perm[1]]
    /\ \A perm \in L \ BareOf(L) : perm \in u.granted

\* C5: for every user and every non-empty flat list L, check_permissions
\* returns (every bare identifier of L' is true on the user) and (the user is
\* granted every dotted identifier of L), L' being the bare identifiers of L
\* plus is_active exactly when L has a bare identifier and names neither
\* is_anonymous nor is_active. An unauthenticated user passes
\* ["is_anonymous"], and a list of dotted identifiers only is decided by the
\* grants alone, inactive users included.
C5_FlatList ==
    (EvaluatorCalled /\ permissions.type = "list" /\ permissions.items # <<>>) =>
        /\ result.value = FlatRule(user, Range(permissions.items))
        /\ (permissions.items = <<(<<"is_anonymous">>)>> /\ ~user.attrs.is_authenticated)
                => result.value
        /\ (\A i \in 1..Len(permissions.items) : Len(permissions.items[i]) > 1)
                => (result.value <=> Range(permissions.items) \subseteq user.granted)

\* an inactive, unauthenticated user passing ["is_anonymous"]
C5_Witness ==
    /\ EvaluatorCalled
    /\ permissions = [type |-> "list", items |-> <<(<<"is_anonymous">>)>>]
    /\ ~user.attrs.is_authenticated /\ ~user.attrs.is_active
    /\ result.value

\* C6: for a tuple of flat lists check_permissions returns true exactly when
\* at least one member list is satisfied under the flat-list rule (an empty
\* member list is satisfied by every user); an empty or None specification
\* is satisfied by every user.
C6_TupleIsOr ==
    EvaluatorCalled =>
        /\ (permissions.type = "tuple" /\ permissions.items # <<>>) =>
                (result.value <=>
                    \E i \in 1..Len(permissions.items) :
                        FlatRule(user, Range(permissions.items[i])))
        /\ (permissions.type = "None" \/ permissions.items = <<>>) => result.value

\* a tuple of two lists of which only the last is satisfied
C6_Witness ==
    /\ EvaluatorCalled
    /\ permissions.type = "tuple" /\ Len(permissions.items) = 2
    /\ ~FlatRule(user, Range(permissions.items[1]))
    /\ FlatRule(user, Range(permissions.items[2]))
    /\ permissions.items[1] # <<>> /\ permissions.items[2] # <<>>
    /\ result.value

ViewRequested == call.op = "view"

\* whether the user satisfies the specification, by the rules of C5 and C6
Satisfies(u, spec) ==
    CASE spec.type = "None" -> TRUE
      [] spec.type = "list" -> spec.items = <<>> \/ FlatRule(u, Range(spec.items))
      [] spec.type = "tuple" ->
            \/ spec.items = <<>>
            \/ \E i \in 1..Len(spec.items) : FlatRule(u, Range(spec.items[i]))

\* C7: a request to a view wrapped by permissions_required invokes the view
\* when the user passes the check; when the user fails it and is
\* authenticated, a permission-denied exception is raised and the view is not
\* invoked, the API exception exactly when the API flag is set and
\* rest_framework can be imported, the generic one otherwise; when the user
\* fails it and is not authenticated nothing is raised, the view is not
\* invoked and the response is the redirect to the configured login URL.
C7_Decorator ==
    ViewRequested =>
        IF Satisfies(user, permissions)
        THEN result.kind = "view"
        ELSE IF user.attrs.is_authenticated
        THEN result.kind =
                (IF call.api_exception /\ call.rest_framework
                 THEN "APIPermissionDenied"
                 ELSE "PermissionDenied")
        ELSE /\ result.kind = "redirect"
             /\ result.location =
                    (IF call.login_url = "None" THEN "/accounts/login/" ELSE call.login_url)

\* an unauthenticated user failing the check is sent to the login URL the
\* decorator was given, with the API flag set and rest_framework installed
C7_Witness ==
    /\ ViewRequested
    /\ ~Satisfies(user, permissions)
    /\ ~user.attrs.is_authenticated
    /\ call.api_exception /\ call.rest_framework
    /\ call.login_url = "/dashboard/login/"
    /\ result = [kind |-> "redirect", location |-> "/dashboard/login/"]

---------------------------------------------------------------------------
(* Claims about the application configuration                              *)

\* the name left after removing the namespace prefixes of a route name
BareViewName(url) == IF url = <<>> THEN "None" ELSE url[Len(url)]

\* C8: for every route name, get_permissions returns the permission map's
\* entry for the bare view name, the name left after removing its namespace
\* prefix, when the bare name is a key, and the default permission set
\* otherwise: for names without namespace, with one level of namespace and
\* with nested namespaces, and for a route without a name.
C8_BareNameLookup ==
    call.op = "get_permissions" =>
        result.value =
            (IF BareViewName(call.url) \in DOMAIN PermissionsMap(call.app)
             THEN PermissionsMap(call.app)[BareViewName(call.url)]
             ELSE DefaultPermissions(call.app))

PostProcessCalled == call.op = "_post_processed_urls"

\* the leaves of a route tree, each with the depth it lies at
RECURSIVE LeavesIn(_, _)
LeavesIn(urlpatterns, depth) ==
    UNION {IF urlpatterns[i].kind = "pattern"
           THEN {[node |-> urlpatterns[i], depth |-> depth]}
           ELSE LeavesIn(urlpatterns[i].url_patterns, depth + 1) :
           i \in 1..Len(urlpatterns)}

NonEmptySpec(spec) == spec.type # "None" /\ spec.items # <<>>

\* the access decorator of an app bound to a permission set
AccessDecorator(app, spec) ==
    [permissions |-> spec,
     login_url |-> IF app = "dashboard" THEN "/dashboard/login/" ELSE "None",
     api_exception |-> app = "api_orders"]

\* C9: after _post_processed_urls(urlpatterns) of an app, every leaf route,
\* at any depth, whose name resolves to a non-empty permission set has for
\* callback its callback of before wrapped in the app's access decorator
\* bound to that set, so that a request by a user failing the set does not
\* reach the view (an exception when authenticated, the redirect to the
\* login page when not); every leaf whose name resolves to an empty set or
\* None keeps the callback it had; the list returned is the list passed in.
C9_PostProcessed ==
    PostProcessCalled =>
        /\ result = [kind |-> "urls", urls |-> call.urlpatterns]
        /\ \A leaf \in LeavesIn(call.urlpatterns, 1) :
             LET id == leaf.node.id
                 spec == get_permissions(call.app, leaf.node.name)
             IN  IF NonEmptySpec(spec)
                 THEN /\ callbacks[id].view = call.before[id].view
                      /\ callbacks[id].wraps =
                            call.before[id].wraps \o <<AccessDecorator(call.app, spec)>>
                      /\ \A u \in Users, rest_framework \in BOOLEAN :
                            ~Satisfies(u, spec) =>
                                InvokeCallback(callbacks[id], u, rest_framework).kind \in
                                    (IF u.attrs.is_authenticated
                                     THEN {"PermissionDenied", "APIPermissionDenied"}
                                     ELSE {"redirect"})
                 ELSE callbacks[id] = call.before[id]

\* the dashboard post-processes a tree in which a leaf three levels down is
\* wrapped and another nested leaf, which it does not guard, is left alone
C9_Witness ==
    /\ PostProcessCalled
    /\ call.app = "dashboard"
    /\ \E leaf \in LeavesIn(call.urlpatterns, 1) :
          /\ leaf.depth = 3
          /\ callbacks[leaf.node.id] # call.before[leaf.node.id]
    /\ \E leaf \in LeavesIn(call.urlpatterns, 1) :
          /\ leaf.depth = 2
          /\ callbacks[leaf.node.id] = call.before[leaf.node.id]

AutoLoadCalled == call.op = "get_auto_loaded_urls"

IsInstalled(label) == registry[label] # <<>>

\* the app and the installed apps below it have been readied
RECURSIVE Readied(_)
Readied(app) ==
    \A i \in 1..Len(Mapping(app)) :
        LET label == Mapping(app)[i].label
        IN  /\ app_attrs[app][label] # "unset"
            /\ IsInstalled(label) => Readied(label)

\* the app's route list is not empty: it declares routes of its own, or an
\* installed child of its mapping has a route list that is not empty
RECURSIVE HasRouteList(_)
HasRouteList(app) ==
    \/ \E i \in PatternIds : Patterns[i].app = app /\ app \in project.routed
    \/ \E i \in 1..Len(Mapping(app)) :
          IsInstalled(Mapping(app)[i].label) /\ HasRouteList(Mapping(app)[i].label)

\* the entries of the mapping that are to be mounted, in declaration order
Mountable(app) ==
    SelectSeq(Mapping(app), LAMBDA e : IsInstalled(e.label) /\ HasRouteList(e.label))

DeclaredEndpoint(value) ==
    IF value.isdict /\ value.endpoint = "None" THEN "" ELSE value.endpoint

\* C10: on a readied configuration get_auto_loaded_urls returns, without
\* raising, exactly one mounted entry for each declared child label whose app
\* is installed and whose route list is not empty, in declaration order, and
\* no other entry: labels of uninstalled apps and installed children without
\* routes are left out, whatever the mounting mode.
C10_AutoLoaded ==
    (AutoLoadCalled /\ Readied(call.app)) =>
        /\ result.kind = "urls"
        /\ Len(result.urls) = Len(Mountable(call.app))
        /\ \A i \in 1..Len(result.urls) :
              /\ result.urls[i].kind = "resolver"
              /\ result.urls[i].endpoint = DeclaredEndpoint(Mountable(call.app)[i].value)
              /\ result.urls[i].url_patterns # <<>>

\* the dashboard, with one child not installed, one installed without routes
\* that would be mounted inline, and one mounted
C10_Witness ==
    /\ AutoLoadCalled /\ Readied(call.app)
    /\ call.app = "dashboard"
    /\ ~IsInstalled("api_orders")
    /\ IsInstalled("reports") /\ ~HasRouteList("reports")
    /\ project.include_urls_in_parent
    /\ Len(result.urls) = 1
    /\ result.urls[1].endpoint = "catalogue/"

\* a composition of routes was the last call
ComposeCalled == call.op \in {"get_auto_loaded_urls", "urls"}

InlineApplies(parent, child) ==
    IF child = "reports" THEN IncludeUrlsInParent(parent) ELSE IncludeUrlsInParent(child)

\* the mapping value asks for regex-style matching
AsksRegex(value) == value.isdict /\ value.has_regex /\ value.regex

\* C12: in the list get_auto_loaded_urls returns on a readied configuration,
\* the entry of a child holds the child's (processed) route list; when
\* include_urls_in_parent applies to the child (the child's own attribute,
\* or the parent's when the child has none) the entry is an include of that
\* list, carrying the child's namespace exactly when
\* NAMESPACE_AUTO_INCLUDED_URLS is true and no namespace otherwise; when it
\* does not apply the entry is the child's urls triple (routes, app label,
\* namespace); the entry matches by regex exactly when the mapping value is
\* a dict whose regex key is true, and plainly for a string value.
C12_MountMode ==
    (AutoLoadCalled /\ Readied(call.app)) =>
        /\ Len(result.urls) = Len(Mountable(call.app))
        /\ \A i \in 1..Len(result.urls) :
              LET entry == result.urls[i]
                  child == Mountable(call.app)[i].label
                  value == Mountable(call.app)[i].value
                  namespace == IF child = "reports" THEN "rep" ELSE child
              IN  /\ entry.url_patterns = urls(child, call.before).urls
                  /\ IF InlineApplies(call.app, child)
                     THEN IF project.NAMESPACE_AUTO_INCLUDED_URLS
                          THEN entry.app_name = namespace /\ entry.namespace = namespace
                          ELSE entry.app_name = "None" /\ entry.namespace = "None"
                     ELSE entry.app_name = child /\ entry.namespace = namespace
                  /\ entry.regex = AsksRegex(value)
                  /\ ~value.isdict => ~entry.regex

\* the dashboard, its own include_urls_in_parent true, mounts the catalogue
\* as a triple (the catalogue's own attribute is false) by a plain match,
\* the orders API inline by a regex, and the reports, which have no such
\* attribute, inline under their namespace
C12_Witness ==
    /\ AutoLoadCalled /\ Readied(call.app)
    /\ call.app = "dashboard"
    /\ project.include_urls_in_parent /\ project.NAMESPACE_AUTO_INCLUDED_URLS
    /\ Len(result.urls) = 3
    /\ result.urls[1].app_name = "catalogue" /\ ~result.urls[1].regex
    /\ result.urls[2].app_name = "api_orders" /\ result.urls[2].regex
    /\ result.urls[3].app_name = "rep" /\ result.urls[3].namespace = "rep"

---------------------------------------------------------------------------
(* Claims about the cached class loader                                    *)

ClassesCalled == call.op \in {"get_classes", "get_class"}

\* the loader the setting names, when it names one
Configured ==
    CASE loader_setting \in {<<>>, <<"xently", "core", "loading", "default_class_loader">>} ->
            "default_class_loader"
      [] loader_setting = <<"shop", "loading", "custom_loader">> -> "custom_loader"
      [] OTHER -> "None"

\* C13: in every get_classes or get_class call of a process, the loader is
\* resolved from XENTLY_DYNAMIC_CLASS_LOADER only when none is cached yet,
\* and then it is the loader the setting names and it is cached; once a
\* loader is cached, every later call dispatches to it, leaves the cache as
\* it is and resolves nothing; so the loader is resolved at most once.
C13_ResolvedOnce ==
    [][ (call'.op \in {"get_classes", "get_class"}) =>
            /\ resolutions' <= 1
            /\ loader_cache.filled =>
                  /\ ~call'.resolved
                  /\ resolutions' = resolutions
                  /\ loader_cache' = loader_cache
                  /\ call'.loader = loader_cache.callable
            /\ (~loader_cache.filled /\ Configured # "None") =>
                  /\ call'.resolved
                  /\ resolutions' = resolutions + 1
                  /\ call'.loader = Configured
                  /\ loader_cache' = [filled |-> TRUE, callable |-> Configured]
            /\ (~loader_cache.filled /\ Configured = "None") =>
                  /\ ~call'.resolved
                  /\ ~loader_cache'.filled
                  /\ result'.kind = "ImportError"
      ]_vars

\* a later call under the custom loader's setting, answered by the cached
\* custom loader without a resolution
C13_Witness ==
    /\ ClassesCalled
    /\ loader_setting = <<"shop", "loading", "custom_loader">>
    /\ ~call.resolved
    /\ call.loader = "custom_loader"
    /\ loader_cache = [filled |-> TRUE, callable |-> "custom_loader"]
    /\ resolutions = 1
    /\ result.kind = "class"

---------------------------------------------------------------------------
(* Claims about repeated evaluation of urls                                *)

UrlsCalled == call.op = "urls" /\ result.kind = "urls"

\* a decorator made by an app's get_url_decorator: it carries the app's
\* login URL and API flag (in this project no two apps that decorate the
\* same leaf agree on both)
OfApp(app, decorator) ==
    /\ decorator.login_url = (IF app = "dashboard" THEN "/dashboard/login/" ELSE "None")
    /\ decorator.api_exception = (app = "api_orders")

DecoratorsOf(app, callback) ==
    {i \in DOMAIN callback.wraps : OfApp(app, callback.wraps[i])}

\* C14: after any evaluation of the urls property of an app that has
\* auto_process_urls on, the first or a later one, every leaf of the
\* returned routes still leads to its original view; a leaf the app guards
\* (its name resolves to a non-empty permission set) is wrapped by exactly
\* one access decorator of that app, the one bound to that set, and a leaf
\* it does not guard by none.
C14_NoStacking ==
    (UrlsCalled /\ call.app \notin {"offers"}) =>
        \A leaf \in LeavesIn(result.urls, 1) :
            LET callback == callbacks[leaf.node.id]
                spec == get_permissions(call.app, leaf.node.name)
            IN  /\ callback.view = Patterns[leaf.node.id].view
                /\ IF NonEmptySpec(spec)
                   THEN /\ Cardinality(DecoratorsOf(call.app, callback)) = 1
                        /\ \A i \in DecoratorsOf(call.app, callback) :
                              callback.wraps[i] = AccessDecorator(call.app, spec)
                   ELSE DecoratorsOf(call.app, callback) = {}

====
